---- MODULE Spec2Model ----
(***************************************************************************)
(* Model of the proxy engine of src/proxy.py: one Proxy (the accept-loop   *)
(* thread of an endpoint), the SocketHandler threads it creates, and one   *)
(* outside thread (the command loop of src/application.py) that calls the  *)
(* endpoint's public operations.  Every read or write of a shared field is *)
(* one step, so the interleavings Python's threads allow are all present.  *)
(***************************************************************************)
EXTENDS Integers, Sequences, FiniteSets, TLC

\* Bounds of the model.
MaxHandlers == 3        \* SocketHandler objects ever constructed
MaxBuf == 2             \* sendData calls that find a handler
MaxProxies == 3         \* Proxy objects ever constructed by createProxy

\* self._client = None / self._server = None
None == 0
\* The thread of the command loop; handler threads are 1..MaxHandlers.
CLI == 0

Handlers == 1..MaxHandlers
Threads == 0..MaxHandlers

\* The Proxy objects of the registry of src/application.py; a dict lookup
\* that finds no key, and getProxyByName(None), give NoProxy.
ProxyIds == 1..MaxProxies
NoProxy == 0

\* A name is the sequence of its characters.  NoName stands for Python's
\* None where a name is expected.
NoName == <<"None">>
Names == {<<"a">>, <<"b">>, <<"c">>, <<"0", "a">>, <<>>}
Digits == {"0", "1", "2", "3", "4", "5", "6", "7", "8", "9"}

VARIABLES
    connected,      \* Proxy._connected
    isShutdown,     \* Proxy._isShutdown
    client,         \* Proxy._client (a handler or None)
    server,         \* Proxy._server (a handler or None)
    bindSocket,     \* "open" | "closed"
    lock,           \* Proxy._lock is held
    apc,            \* position of the accept thread in Proxy.run
    aj,             \* the handler the accept thread is joining
    pc,             \* position of each handler thread / of the command loop
    dpc,            \* position of each thread inside Proxy.disconnect
    sh,             \* local sh of Proxy.sendData, per calling thread
    role,           \* SocketHandler._ROLE ("none" before construction)
    running,        \* SocketHandler._running
    sock,           \* SocketHandler._sock and its peer: "none" | "up" | "eof" | "reset" | "closed"
    queue,          \* SocketHandler._dataQueue; a buffer is named by its enqueue number
    abort,          \* abort or abort2 of the current loop iteration
    hout,           \* output list of the current loop iteration (tags)
    nextH,          \* number of handlers constructed
    nbuf,           \* number of sendData calls that found a handler
    nsent,          \* history: number of buffers enqueued on each handler
    qdata,          \* history: the data of the buffers enqueued on each handler
    wire,           \* history: buffers written to each handler's socket
    stopped,        \* history: stop() has been called on the handler
    unreported,     \* history: disconnected or shut down, and no line passed since
    shutdownConnected, \* history: shutdown() was called while _connected was set
    proxies,        \* Application._proxies: name -> Proxy (NoProxy: no such key)
    parsers,        \* the Proxy keys of Application._parsers
    selectedProxyName,  \* Application._selectedProxyName
    pname,          \* Proxy.name of each Proxy object
    pthread,        \* each Proxy object: "none" | "unbound" | "started" | "shutdown" | "joined"
    nextP,          \* number of Proxy objects constructed
    joining,        \* the Proxy whose join() Application.killProxy waits in
    out,            \* event: the output list handed to the output handler in this step
    rcv,            \* event: <<handler, data>>, the bytes recv() returned in this step
    called,         \* event: <<handler, data, role>> of the packet handler call of this step
    err             \* event: <<thread, operation>> of the exception raised in this step

vars == <<connected, isShutdown, client, server, bindSocket, lock, apc, aj,
          pc, dpc, sh, role, running, sock, queue, abort, hout,
          nextH, nbuf, nsent, qdata, wire, stopped, unreported,
          proxies, parsers, selectedProxyName, pname, pthread, nextP, joining,
          shutdownConnected, out, rcv, called, err>>

epVars == <<connected, isShutdown, client, server, bindSocket, lock>>
accVars == <<apc, aj>>
thrVars == <<pc, dpc, sh>>
hdlVars == <<role, running, sock, queue, abort, hout>>
histVars == <<nextH, nbuf, nsent, qdata, wire, stopped>>
regVars == <<proxies, parsers, selectedProxyName, pname, pthread, nextP, joining>>
\* What the threads of an endpoint leave alone: the registry of the
\* application and what the caller of shutdown() found.
callerVars == <<regVars, shutdownConnected>>

\* The events of a step that calls neither handler and raises nothing; a
\* step without a call of the packet handler has received nothing either.
NoCall == called' = <<>> /\ rcv' = <<>>
NoErr == err' = <<>>
\* The output handler is called with a list of lines; a list with a line in
\* it ends the silence since the last disconnect or shutdown.
Output(lines) == out' = lines /\ unreported' = (unreported /\ lines = {})
NoOut == Output({})
NoEvent == NoCall /\ NoErr /\ NoOut

Init ==
    /\ connected = FALSE
    /\ isShutdown = FALSE
    /\ client = None
    /\ server = None
    /\ bindSocket = "open"
    /\ lock = FALSE
    /\ apc = <<"while">>
    /\ aj = None
    /\ pc = [t \in Threads |-> IF t = CLI THEN "idle" ELSE "unborn"]
    /\ dpc = [t \in Threads |-> "idle"]
    /\ sh = [t \in Threads |-> None]
    /\ role = [h \in Handlers |-> "none"]
    /\ running = [h \in Handlers |-> FALSE]
    /\ sock = [h \in Handlers |-> "none"]
    /\ queue = [h \in Handlers |-> <<>>]
    /\ abort = [h \in Handlers |-> FALSE]
    /\ hout = [h \in Handlers |-> {}]
    /\ nextH = 0
    /\ nbuf = 0
    /\ nsent = [h \in Handlers |-> 0]
    /\ qdata = [h \in Handlers |-> <<>>]
    /\ wire = [h \in Handlers |-> <<>>]
    /\ stopped = [h \in Handlers |-> FALSE]
    /\ unreported = FALSE
    /\ shutdownConnected = FALSE
    /\ proxies = [n \in Names |-> NoProxy]
    /\ parsers = {}
    /\ selectedProxyName = NoName
    /\ pname = [p \in ProxyIds |-> NoName]
    /\ pthread = [p \in ProxyIds |-> "none"]
    /\ nextP = 0
    /\ joining = NoProxy
    /\ out = {}
    /\ rcv = <<>>
    /\ called = <<>>
    /\ err = <<>>

(***************************************************************************)
(* Helpers                                                                 *)
(***************************************************************************)
\* Proxy.sendData line 136: the handler reference a role selects.
RefOf(r) == IF r = "CLIENT" THEN client ELSE server

\* What a thread blocked in Thread.join() waits for: run() has returned or
\* has been left by an exception.
Finished(h) == pc[h] \in {"dead", "crashed"}

\* Thread.is_alive(): started and not finished.
IsAlive(h) == pc[h] \notin {"unborn", "new", "dead", "crashed"}

\* A queue that hands out the newest buffer first (queue.LifoQueue).
QueuePutLifo(q, b) == <<b>> \o q

\* queue.SimpleQueue: put at the tail, get from the head.
QueuePut(q, b) == Append(q, b)
QueueHead(q) == Head(q)
QueueRest(q) == Tail(q)

\* SocketHandler.stop, lines 273-277
Stop(h) ==
    /\ running' = [running EXCEPT ![h] = FALSE]
    /\ stopped' = [stopped EXCEPT ![h] = TRUE]

\* SocketHandler.__init__, lines 234-258, for the next handler
NewHandler(r) ==
    /\ nextH' = nextH + 1
    /\ role' = [role EXCEPT ![nextH + 1] = r]
    /\ sock' = [sock EXCEPT ![nextH + 1] = "up"]
    /\ pc' = [pc EXCEPT ![nextH + 1] = "new"]

(***************************************************************************)
(* Proxy.run, Proxy._waitForClient, Proxy._connect: the accept thread      *)
(***************************************************************************)
\* lines 83, 95, 98, 100, 113: the list `output` of an iteration of run()
\* when the iteration ends at position p; line 115 passes it on.
RunOutput(p) ==
    IF p \in {"connect", "ok_start_client", "ok_start_server"}
    THEN {"client", "connecting"}
    ELSE IF p \in {"fail_start", "fail_stop", "fail_join", "fail_clear"}
    THEN {"client", "connecting", "nodial"}
    ELSE IF p = "ok_connected"
    THEN {"client", "connecting", "established"}
    ELSE {}

\* line 82: while not self._isShutdown
Run_While ==
    /\ apc = <<"while">>
    /\ apc' = IF isShutdown THEN <<"sd_close">> ELSE <<"accept">>
    /\ NoEvent
    /\ UNCHANGED <<epVars, aj, thrVars, hdlVars, histVars>>
    /\ UNCHANGED callerVars

\* lines 174-177: accept() times out; run() continues with the next iteration.
WaitForClient_Timeout ==
    /\ apc = <<"accept">>
    /\ apc' = <<"while">>
    /\ NoEvent
    /\ UNCHANGED <<epVars, aj, thrVars, hdlVars, histVars>>
    /\ UNCHANGED callerVars

\* line 175: accept() returns the socket of a client that has connected.
WaitForClient_Accept ==
    /\ apc = <<"accept">>
    /\ apc' = <<"wfc", "CLIENT", "chk">>
    /\ NoEvent
    /\ UNCHANGED <<epVars, aj, thrVars, hdlVars, histVars>>
    /\ UNCHANGED callerVars

\* A teardown in _waitForClient that leaves the server handler in place.
AfterTeardownClientOnly(p, r) ==
    IF p = "wfc" THEN <<"wfc_new">>
    ELSE IF r = "CLIENT" THEN <<p, "SERVER", "chk">> ELSE <<"done">>

\* Where the accept thread goes after the stop/join/clear of one reference.
AfterTeardown(p, r) ==
    IF r = "CLIENT" THEN <<p, "SERVER", "chk">>
    ELSE IF p = "wfc" THEN <<"wfc_new">> ELSE <<"done">>

\* `if self._client is not None:` (lines 180, 185, 120, 125)
Teardown_Check(p, r) ==
    /\ apc = <<p, r, "chk">>
    /\ apc' = IF RefOf(r) # None THEN <<p, r, "stop">> ELSE AfterTeardown(p, r)
    /\ NoEvent
    /\ UNCHANGED <<epVars, aj, thrVars, hdlVars, histVars>>
    /\ UNCHANGED callerVars

\* A stop() that closes the socket of the handler itself instead of leaving
\* that to the handler's thread.
Teardown_StopAndClose(p, r) ==
    /\ apc = <<p, r, "stop">>
    /\ RefOf(r) # None
    /\ apc' = <<p, r, "join">>
    /\ Stop(RefOf(r))
    /\ sock' = [sock EXCEPT ![RefOf(r)] = "closed"]
    /\ NoEvent
    /\ UNCHANGED <<epVars, aj, thrVars, role, queue, abort, hout,
                   nextH, nbuf, nsent, qdata, wire>>
    /\ UNCHANGED callerVars

\* `self._client.stop()` (lines 181, 186, 121, 126): the reference is read
\* again; None has no stop() and the AttributeError leaves run().
Teardown_Stop(p, r) ==
    /\ apc = <<p, r, "stop">>
    /\ IF RefOf(r) = None
       THEN /\ apc' = <<"crashed">>
            /\ UNCHANGED <<running, stopped>>
       ELSE /\ apc' = <<p, r, "join">>
            /\ Stop(RefOf(r))
    /\ NoEvent
    /\ UNCHANGED <<epVars, aj, thrVars, role, sock, queue, abort, hout,
                   nextH, nbuf, nsent, qdata, wire>>
    /\ UNCHANGED callerVars

\* `self._client.join()` (lines 182, 187, 122, 127): the reference is read
\* again, then the thread blocks on that object.
Teardown_Join(p, r) ==
    /\ apc = <<p, r, "join">>
    /\ IF RefOf(r) = None \/ pc[RefOf(r)] = "new"
       THEN apc' = <<"crashed">> /\ aj' = aj
       ELSE apc' = <<p, r, "wait">> /\ aj' = RefOf(r)
    /\ NoEvent
    /\ UNCHANGED <<epVars, thrVars, hdlVars, histVars>>
    /\ UNCHANGED callerVars

\* join() returns once the handler thread has finished.
Teardown_Joined(p, r) ==
    /\ apc = <<p, r, "wait">>
    /\ Finished(aj)
    /\ apc' = <<p, r, "clr">>
    /\ aj' = None
    /\ NoEvent
    /\ UNCHANGED <<epVars, thrVars, hdlVars, histVars>>
    /\ UNCHANGED callerVars

\* `self._client = None` (lines 183, 188, 123, 128)
Teardown_Clear(p, r) ==
    /\ apc = <<p, r, "clr">>
    /\ apc' = AfterTeardown(p, r)
    /\ client' = IF r = "CLIENT" THEN None ELSE client
    /\ server' = IF r = "SERVER" THEN None ELSE server
    /\ NoEvent
    /\ UNCHANGED <<connected, isShutdown, bindSocket, lock, aj, thrVars,
                   hdlVars, histVars>>
    /\ UNCHANGED callerVars

Teardown(p) ==
    \E r \in {"CLIENT", "SERVER"} :
        \/ Teardown_Check(p, r)
        \/ Teardown_Stop(p, r)
        \/ Teardown_Join(p, r)
        \/ Teardown_Joined(p, r)
        \/ Teardown_Clear(p, r)

\* lines 179-188: disconnect the old client if there was one.
WaitForClient_Teardown == Teardown("wfc")

\* lines 120-128: the shutdown section of run().
Run_ShutdownTeardown == Teardown("sd")

\* lines 190-192 and 196: the SocketHandler of the new client.
WaitForClient_NewClient ==
    /\ apc = <<"wfc_new">>
    /\ nextH < MaxHandlers
    /\ apc' = <<"lock">>
    /\ client' = nextH + 1
    /\ NewHandler("CLIENT")
    /\ NoEvent
    /\ UNCHANGED <<connected, isShutdown, server, bindSocket, lock, aj,
                   dpc, sh, running, queue, abort, hout,
                   nbuf, nsent, qdata, wire, stopped>>
    /\ UNCHANGED callerVars

\* lines 193-195: the constructor raises OSError (getpeername, line 245,
\* when the peer is already gone), line 194 reports it; run() continues with
\* the next iteration.
WaitForClient_NewClientFails ==
    /\ apc = <<"wfc_new">>
    /\ apc' = <<"while">>
    /\ NoCall /\ NoErr /\ Output({"accept"})
    /\ UNCHANGED <<epVars, aj, thrVars, hdlVars, histVars>>
    /\ UNCHANGED callerVars

\* line 92: with self._lock
Run_Lock ==
    /\ apc = <<"lock">>
    /\ ~lock
    /\ lock' = TRUE
    /\ apc' = <<"connect">>
    /\ NoEvent
    /\ UNCHANGED <<connected, isShutdown, client, server, bindSocket, aj,
                   thrVars, hdlVars, histVars>>
    /\ UNCHANGED callerVars

\* lines 198-207: _connect() dials the remote host and succeeds.
Connect_Ok ==
    /\ apc = <<"connect">>
    /\ server = None
    /\ nextH < MaxHandlers
    /\ apc' = <<"ok_start_client">>
    /\ server' = nextH + 1
    /\ NewHandler("SERVER")
    /\ NoEvent
    /\ UNCHANGED <<connected, isShutdown, client, bindSocket, lock, aj,
                   dpc, sh, running, queue, abort, hout,
                   nbuf, nsent, qdata, wire, stopped>>
    /\ UNCHANGED callerVars

\* lines 199-200 and 209-211: _connect() raises when a server handler is
\* still referenced (run() is left through line 115), and reports the
\* failure (line 210) and returns False when the dial fails.
Connect_Fails ==
    /\ apc = <<"connect">>
    /\ IF server # None
       THEN apc' = <<"crashed">> /\ lock' = FALSE /\ Output(RunOutput("connect"))
       ELSE apc' = <<"fail_start">> /\ lock' = lock /\ Output({"unable"})
    /\ NoCall /\ NoErr
    /\ UNCHANGED <<connected, isShutdown, client, server, bindSocket, aj,
                   thrVars, hdlVars, histVars>>
    /\ UNCHANGED callerVars

\* Thread.start() on self._client (lines 101, 108): None has no start(), and
\* a thread can be started only once; either error leaves the with block
\* (releasing the lock) and run(), through line 115.
Run_StartClient(at, next) ==
    /\ apc = <<at>>
    /\ IF client = None \/ pc[client] # "new"
       THEN /\ apc' = <<"crashed">>
            /\ lock' = FALSE
            /\ pc' = pc
            /\ Output(RunOutput(at))
       ELSE /\ apc' = <<next>>
            /\ lock' = lock
            /\ pc' = [pc EXCEPT ![client] = "started"]
            /\ NoOut
    /\ NoCall /\ NoErr
    /\ UNCHANGED <<connected, isShutdown, client, server, bindSocket, aj,
                   dpc, sh, hdlVars, histVars>>
    /\ UNCHANGED callerVars

\* line 101
Run_FailStart == Run_StartClient("fail_start", "fail_stop")

\* line 102: self._client.stop()
Run_FailStop ==
    /\ apc = <<"fail_stop">>
    /\ apc' = <<"fail_join">>
    /\ Stop(client)
    /\ NoEvent
    /\ UNCHANGED <<epVars, aj, thrVars, role, sock, queue, abort, hout,
                   nextH, nbuf, nsent, qdata, wire>>
    /\ UNCHANGED callerVars

\* line 103: self._client.join(), still inside the with block
Run_FailJoin ==
    /\ apc = <<"fail_join">>
    /\ Finished(client)
    /\ apc' = <<"fail_clear">>
    /\ NoEvent
    /\ UNCHANGED <<epVars, aj, thrVars, hdlVars, histVars>>
    /\ UNCHANGED callerVars

\* lines 104-105 and 115: self._client = None; continue (leaves the with
\* block and passes the output on)
Run_FailClear ==
    /\ apc = <<"fail_clear">>
    /\ client' = None
    /\ lock' = FALSE
    /\ apc' = <<"while">>
    /\ NoCall /\ NoErr /\ Output(RunOutput("fail_clear"))
    /\ UNCHANGED <<connected, isShutdown, server, bindSocket, aj,
                   thrVars, hdlVars, histVars>>
    /\ UNCHANGED callerVars

\* line 108
Run_OkStartClient == Run_StartClient("ok_start_client", "ok_start_server")

\* line 109: self._server.start()
Run_OkStartServer ==
    /\ apc = <<"ok_start_server">>
    /\ apc' = <<"ok_connected">>
    /\ pc' = [pc EXCEPT ![server] = "started"]
    /\ NoEvent
    /\ UNCHANGED <<epVars, aj, dpc, sh, hdlVars, histVars>>
    /\ UNCHANGED callerVars

\* lines 111-115: self._connected = True, end of the with block; the output
\* is passed on
Run_Connected ==
    /\ apc = <<"ok_connected">>
    /\ connected' = TRUE
    /\ lock' = FALSE
    /\ apc' = <<"while">>
    /\ NoCall /\ NoErr /\ Output(RunOutput("ok_connected"))
    /\ UNCHANGED <<isShutdown, client, server, bindSocket, aj,
                   thrVars, hdlVars, histVars>>
    /\ UNCHANGED callerVars

\* lines 117-118: self._bindSocket.close()
Run_CloseBind ==
    /\ apc = <<"sd_close">>
    /\ bindSocket' = "closed"
    /\ apc' = <<"sd", "CLIENT", "chk">>
    /\ NoEvent
    /\ UNCHANGED <<connected, isShutdown, client, server, lock, aj,
                   thrVars, hdlVars, histVars>>
    /\ UNCHANGED callerVars

\* The accept thread apart from accept() returning a client.
AcceptLoop ==
    \/ Run_While
    \/ WaitForClient_Timeout
    \/ WaitForClient_Teardown
    \/ WaitForClient_NewClient
    \/ WaitForClient_NewClientFails
    \/ Run_Lock
    \/ Connect_Ok
    \/ Connect_Fails
    \/ Run_FailStart
    \/ Run_FailStop
    \/ Run_FailJoin
    \/ Run_FailClear
    \/ Run_OkStartClient
    \/ Run_OkStartServer
    \/ Run_Connected
    \/ Run_CloseBind
    \/ Run_ShutdownTeardown

AcceptThread == AcceptLoop \/ WaitForClient_Accept

(***************************************************************************)
(* Proxy.disconnect, called by thread t (a handler thread or the command   *)
(* loop).  dpc[t] is the caller's position inside the call.                *)
(***************************************************************************)
StopAt(r) == IF r = "CLIENT" THEN "c_stop" ELSE "s_stop"
ClearAt(r) == IF r = "CLIENT" THEN "c_clr" ELSE "s_clr"

\* An exception leaves disconnect() in thread t: the command loop catches
\* and prints it (application.py line 157); a handler thread runs the
\* finally block of its loop (line 344) and ends with its socket open.
Raise(t, what) ==
    /\ err' = <<t, what>>
    /\ IF t = CLI
       THEN /\ pc' = [pc EXCEPT ![t] = "idle"]
            /\ NoOut
            /\ hout' = hout
       ELSE /\ pc' = [pc EXCEPT ![t] = "crashed"]
            /\ Output(hout[t])
            /\ hout' = [hout EXCEPT ![t] = {}]

\* disconnect() without the test of line 218: the client handler is stopped
\* whether or not there is one.
Disconnect_LockNoTest(t) ==
    /\ dpc[t] = "lock"
    /\ ~lock
    /\ lock' = TRUE
    /\ dpc' = [dpc EXCEPT ![t] = "c_stop"]
    /\ NoEvent
    /\ UNCHANGED <<connected, isShutdown, client, server, bindSocket,
                   accVars, pc, sh, hdlVars, histVars>>
    /\ UNCHANGED callerVars

\* lines 217-218: with self._lock: if self._client is not None
Disconnect_Lock(t) ==
    /\ dpc[t] = "lock"
    /\ ~lock
    /\ lock' = TRUE
    /\ dpc' = [dpc EXCEPT ![t] = IF client # None THEN "c_stop" ELSE "s_chk"]
    /\ NoEvent
    /\ UNCHANGED <<connected, isShutdown, client, server, bindSocket,
                   accVars, pc, sh, hdlVars, histVars>>
    /\ UNCHANGED callerVars

\* lines 219, 223: self._client.stop() / self._server.stop(); the reference
\* is read again, and None has no stop().
Disconnect_Stop(t, r) ==
    /\ dpc[t] = StopAt(r)
    /\ IF RefOf(r) = None
       THEN /\ Raise(t, "disconnect")
            /\ lock' = FALSE
            /\ dpc' = [dpc EXCEPT ![t] = "idle"]
            /\ UNCHANGED <<running, stopped>>
       ELSE /\ Stop(RefOf(r))
            /\ dpc' = [dpc EXCEPT ![t] = ClearAt(r)]
            /\ NoErr /\ NoOut
            /\ UNCHANGED <<lock, pc, hout>>
    /\ NoCall
    /\ UNCHANGED <<connected, isShutdown, client, server, bindSocket,
                   accVars, sh, role, sock, queue, abort, nextH, nbuf, nsent, qdata, wire>>
    /\ UNCHANGED callerVars

\* lines 220, 224: self._client = None / self._server = None
Disconnect_Clear(t, r) ==
    /\ dpc[t] = ClearAt(r)
    /\ client' = IF r = "CLIENT" THEN None ELSE client
    /\ server' = IF r = "SERVER" THEN None ELSE server
    /\ dpc' = [dpc EXCEPT ![t] = IF r = "CLIENT" THEN "s_chk" ELSE "conn"]
    /\ NoEvent
    /\ UNCHANGED <<connected, isShutdown, bindSocket, lock,
                   accVars, pc, sh, hdlVars, histVars>>
    /\ UNCHANGED callerVars

\* line 222: if self._server is not None
Disconnect_CheckServer(t) ==
    /\ dpc[t] = "s_chk"
    /\ dpc' = [dpc EXCEPT ![t] = IF server # None THEN "s_stop" ELSE "conn"]
    /\ NoEvent
    /\ UNCHANGED <<epVars, accVars, pc, sh, hdlVars, histVars>>
    /\ UNCHANGED callerVars

\* lines 226-227: self._connected = False, end of the with block; nothing
\* is passed to the output handler
Disconnect_Done(t) ==
    /\ dpc[t] = "conn"
    /\ connected' = FALSE
    /\ lock' = FALSE
    /\ dpc' = [dpc EXCEPT ![t] = "idle"]
    /\ NoCall /\ NoErr
    /\ out' = {}
    /\ unreported' = (unreported \/ connected)
    /\ UNCHANGED <<isShutdown, client, server, bindSocket,
                   accVars, pc, sh, hdlVars, histVars>>
    /\ UNCHANGED callerVars

Disconnect ==
    \E t \in Threads :
        \/ Disconnect_Lock(t)
        \/ \E r \in {"CLIENT", "SERVER"} : Disconnect_Stop(t, r)
        \/ \E r \in {"CLIENT", "SERVER"} : Disconnect_Clear(t, r)
        \/ Disconnect_CheckServer(t)
        \/ Disconnect_Done(t)

(***************************************************************************)
(* Proxy.sendData, called by thread t                                      *)
(***************************************************************************)
\* Where thread t continues after sendData returns.
AfterSendData(t) == IF t = CLI THEN "idle" ELSE "sendq"

\* lines 136-138: sh = the handler of the destination; return if it is None
SendData_Read(t, r) ==
    IF RefOf(r) = None
    THEN /\ pc' = [pc EXCEPT ![t] = AfterSendData(t)]
         /\ UNCHANGED <<sh, nbuf>>
    ELSE /\ nbuf < MaxBuf
         /\ nbuf' = nbuf + 1
         /\ pc' = [pc EXCEPT ![t] = "put"]
         /\ sh' = [sh EXCEPT ![t] = RefOf(r)]

\* send() called on the field of the endpoint, read a second time, instead
\* of on the local sh.
SendTargetReread(t) == RefOf(role[sh[t]])

\* line 139: the handler sh.send(data) is called on
SendTarget(t) == sh[t]

\* What recv() returns: Empty is the empty bytes object, Chunk any other.
Empty == 0
Chunk == 1

\* src/passthrough_parser.py lines 28 and 30, src/base_parser.py lines 205,
\* 225, 254: the data thread t passes to sendData; a handler thread passes
\* the chunk its packet handler was called with.
SentData(t) == Chunk

\* lines 139 and 263-265: sh.send(data) puts the data on the handler's
\* queue.  An exception of sendData goes to the command loop, or, inside
\* the packet handler, to the except clause of lines 380-382.
SendData_Put(t) ==
    /\ pc[t] = "put"
    /\ sh' = [sh EXCEPT ![t] = None]
    /\ IF SendTarget(t) = None
       THEN /\ err' = <<t, "sendData">>
            /\ pc' = [pc EXCEPT ![t] = AfterSendData(t)]
            /\ IF t = CLI
               THEN UNCHANGED <<hout, dpc>>
               ELSE /\ hout' = [hout EXCEPT ![t] = @ \cup {"parse"}]
                    /\ dpc' = [dpc EXCEPT ![t] = "lock"]
            /\ UNCHANGED <<queue, nsent, qdata>>
       ELSE /\ queue' = [queue EXCEPT ![SendTarget(t)] =
                            QueuePut(@, nsent[SendTarget(t)] + 1)]
            /\ nsent' = [nsent EXCEPT ![SendTarget(t)] = @ + 1]
            /\ qdata' = [qdata EXCEPT ![SendTarget(t)] = Append(@, SentData(t))]
            /\ pc' = [pc EXCEPT ![t] = AfterSendData(t)]
            /\ NoErr
            /\ UNCHANGED <<hout, dpc>>
    /\ NoCall /\ NoOut
    /\ UNCHANGED <<epVars, accVars, role, running, sock, abort,
                   nextH, nbuf, wire, stopped>>
    /\ UNCHANGED callerVars

SendData == \E t \in Threads : SendData_Put(t)

(***************************************************************************)
(* SocketHandler.run: the thread of handler h.  The state of the peer is   *)
(* kept in sock[h] and changes when the handler looks at its socket: "up", *)
(* then "eof" (the peer has closed, recv() returns no bytes, sendall()     *)
(* still succeeds), then "reset" (recv() and sendall() raise).             *)
(***************************************************************************)
Other(r) == IF r = "CLIENT" THEN "SERVER" ELSE "CLIENT"

\* What the socket can have become when the handler next uses it.
PeerAfter(s) ==
    IF s = "up" THEN {"up", "eof", "reset"}
    ELSE IF s = "eof" THEN {"eof", "reset"}
    ELSE {s}

\* lines 302-308: with self._lock: self._running = True
SH_RunStart(h) ==
    /\ pc[h] = "started"
    /\ running' = [running EXCEPT ![h] = TRUE]
    /\ pc' = [pc EXCEPT ![h] = "poll"]
    /\ NoEvent
    /\ UNCHANGED <<epVars, accVars, dpc, sh, role, sock, queue, abort,
                   hout, histVars>>
    /\ UNCHANGED callerVars

\* lines 279-284: select() raises; the handler calls stop() on itself and
\* then reads readyToRead, which was never assigned: the UnboundLocalError
\* leaves run() through the finally block of line 344.
SH_PollFails(h) ==
    /\ pc[h] = "poll"
    /\ dpc[h] = "idle"
    /\ Stop(h)
    /\ pc' = [pc EXCEPT ![h] = "crashed"]
    /\ Output(hout[h])
    /\ hout' = [hout EXCEPT ![h] = {}]
    /\ err' = <<h, "poll">>
    /\ NoCall
    /\ UNCHANGED <<epVars, accVars, dpc, sh, role, sock, queue, abort,
                   nextH, nbuf, nsent, qdata, wire>>
    /\ UNCHANGED callerVars

\* lines 333-334: if abort or abort2: self._proxy.disconnect()
LeaveSend(h, ab) ==
    /\ pc' = [pc EXCEPT ![h] = "chk"]
    /\ dpc' = [dpc EXCEPT ![h] = IF ab THEN "lock" ELSE "idle"]

\* lines 328-331: queueEmpty = self._dataQueue.empty(); the queue is sent
\* if it is not empty and the socket is ready to write.
SendCheck(h, ab) ==
    \E readyToWrite \in BOOLEAN :
        IF queue[h] # <<>> /\ readyToWrite
        THEN pc' = [pc EXCEPT ![h] = "sending"] /\ dpc' = dpc
        ELSE LeaveSend(h, ab)

\* lines 321-331 with readyToRead false: nothing is received.
SH_PollIdle(h) ==
    /\ pc[h] = "poll"
    /\ dpc[h] = "idle"
    /\ sock[h] = "up"
    /\ SendCheck(h, FALSE)
    /\ NoEvent
    /\ UNCHANGED <<epVars, accVars, sh, hdlVars, histVars>>
    /\ UNCHANGED callerVars

\* line 378: self._packetHandler(data, self._proxy, self._ROLE)
RoleArg(h) == role[h]

\* The member client of the ESocketRole the parsers import (module
\* eSocketRole): the role of the handler of the client's socket.
ESocketRole_client == "CLIENT"

\* A parser that sends the data back where it came from.
PassThroughDestinationEcho(origin) == origin

\* src/passthrough_parser.py lines 27-30: the data of the client go to the
\* server, the data of the server to the client.
PassThroughDestination(origin) ==
    IF origin = ESocketRole_client THEN "SERVER" ELSE "CLIENT"

\* recv() returning no bytes is not taken for the end of the stream.
IsDisconnectNever(data) == FALSE

\* line 366: if len(data) == 0: raise IOError
IsDisconnect(data) == data = Empty
\* line 376: if data
IsTruthy(data) == data # Empty

\* lines 359-383, SocketHandler._recvData, when the peer has closed (recv()
\* returns no bytes) or the connection is reset (recv() raises).
SH_RecvFails(h) ==
    /\ pc[h] = "poll"
    /\ dpc[h] = "idle"
    /\ \E s \in PeerAfter(sock[h]) \ {"up"} :
          /\ sock' = [sock EXCEPT ![h] = s]
          /\ LET data == Empty
                 failed == s = "reset" \/ IsDisconnect(data)
             IN /\ abort' = [abort EXCEPT ![h] = failed]
                /\ hout' = [hout EXCEPT ![h] =
                              IF failed THEN @ \cup {"recv"} ELSE @]
                /\ rcv' = IF s = "eof" /\ data # Empty THEN <<h, data>> ELSE <<>>
                /\ called' = IF s = "eof" /\ IsTruthy(data)
                             THEN <<h, data, RoleArg(h)>> ELSE <<>>
                /\ SendCheck(h, failed)
    /\ NoErr /\ NoOut
    /\ UNCHANGED <<epVars, accVars, sh, role, running, queue, histVars>>
    /\ UNCHANGED callerVars

\* lines 365 and 376-378: recv() returns a chunk and the packet handler is
\* called with it.
RecvData(h) ==
    /\ pc[h] = "poll"
    /\ dpc[h] = "idle"
    /\ sock[h] = "up"
    /\ rcv' = <<h, Chunk>>
    /\ IsTruthy(Chunk)
    /\ called' = <<h, Chunk, RoleArg(h)>>

\* The packet handler passes the data through to the other side
\* (src/passthrough_parser.py lines 27-30, Proxy.sendToServer /
\* Proxy.sendToClient, lines 142-148).
Icpt_Forward(h) ==
    /\ RecvData(h)
    /\ SendData_Read(h, PassThroughDestination(RoleArg(h)))
    /\ NoErr /\ NoOut
    /\ UNCHANGED <<epVars, accVars, dpc, hdlVars, nextH, nsent, qdata, wire, stopped>>
    /\ UNCHANGED callerVars

\* The packet handler returns without a call of sendData.
Icpt_Drop(h) ==
    /\ RecvData(h)
    /\ pc' = [pc EXCEPT ![h] = "sendq"]
    /\ NoErr /\ NoOut
    /\ UNCHANGED <<epVars, accVars, dpc, sh, hdlVars, histVars>>
    /\ UNCHANGED callerVars

\* lines 380-382: the packet handler raises; the exception is put on the
\* output list and self._proxy.disconnect() is called.
Icpt_Raises(h) ==
    /\ RecvData(h)
    /\ hout' = [hout EXCEPT ![h] = @ \cup {"parse"}]
    /\ dpc' = [dpc EXCEPT ![h] = "lock"]
    /\ pc' = [pc EXCEPT ![h] = "sendq"]
    /\ NoErr /\ NoOut
    /\ UNCHANGED <<epVars, accVars, sh, role, running, sock, queue,
                   abort, histVars>>
    /\ UNCHANGED callerVars

\* lines 328-331 after the packet handler has returned
SH_SendCheck(h) ==
    /\ pc[h] = "sendq"
    /\ dpc[h] = "idle"
    /\ SendCheck(h, abort[h])
    /\ NoEvent
    /\ UNCHANGED <<epVars, accVars, sh, hdlVars, histVars>>
    /\ UNCHANGED callerVars

\* A _sendQueue whose loop test takes a buffer from the queue as well: of
\* two queued buffers the first is thrown away and the second is sent.
SendAllEveryOther(h, s) ==
    LET skip == Len(queue[h]) > 1
    IN /\ queue' = [queue EXCEPT ![h] =
                       IF skip THEN QueueRest(QueueRest(@)) ELSE QueueRest(@)]
       /\ sock' = [sock EXCEPT ![h] = s]
       /\ IF s = "reset"
          THEN /\ hout' = [hout EXCEPT ![h] = @ \cup {"xmit"}]
               /\ wire' = wire
          ELSE /\ wire' = [wire EXCEPT ![h] =
                              Append(@, IF skip THEN QueueHead(QueueRest(queue[h]))
                                                ELSE QueueHead(queue[h]))]
               /\ hout' = hout

\* lines 290-292: message = self._dataQueue.get(); self._sock.sendall(message)
SendAll(h, s) ==
    /\ queue' = [queue EXCEPT ![h] = QueueRest(@)]
    /\ sock' = [sock EXCEPT ![h] = s]
    /\ IF s = "reset"
       THEN /\ hout' = [hout EXCEPT ![h] = @ \cup {"xmit"}]
            /\ wire' = wire
       ELSE /\ wire' = [wire EXCEPT ![h] = Append(@, QueueHead(queue[h]))]
            /\ hout' = hout

\* line 331: abort2 = self._sendQueue(output), one turn of its loop
SH_SendOne(h) ==
    /\ pc[h] = "sending"
    /\ IF queue[h] = <<>>
       THEN /\ LeaveSend(h, abort[h])
            /\ UNCHANGED <<queue, sock, hout, wire, abort>>
       ELSE \E s \in PeerAfter(sock[h]) :
               /\ SendAll(h, s)
               /\ IF s = "reset"
                  THEN /\ LeaveSend(h, TRUE)
                       /\ abort' = [abort EXCEPT ![h] = TRUE]
                  ELSE UNCHANGED <<pc, dpc, abort>>
    /\ NoEvent
    /\ UNCHANGED <<epVars, accVars, sh, role, running, nextH, nbuf, nsent, qdata, stopped>>
    /\ UNCHANGED callerVars

\* lines 341-344: localRunning = self._running; the output of the
\* iteration goes to the output handler.
SH_CheckRunning(h) ==
    /\ pc[h] = "chk"
    /\ dpc[h] = "idle"
    /\ pc' = [pc EXCEPT ![h] = IF running[h] THEN "poll" ELSE "flush"]
    /\ abort' = [abort EXCEPT ![h] = FALSE]
    /\ Output(hout[h])
    /\ hout' = [hout EXCEPT ![h] = {}]
    /\ NoCall /\ NoErr
    /\ UNCHANGED <<epVars, accVars, dpc, sh, role, running, sock, queue,
                   histVars>>
    /\ UNCHANGED callerVars

\* An exit path that closes the socket without the _sendQueue of line 350.
SH_FlushSkipped(h) ==
    /\ pc[h] = "flush"
    /\ sock' = [sock EXCEPT ![h] = "closed"]
    /\ pc' = [pc EXCEPT ![h] = "dead"]
    /\ Output(hout[h])
    /\ hout' = [hout EXCEPT ![h] = {}]
    /\ NoCall /\ NoErr
    /\ UNCHANGED <<epVars, accVars, dpc, sh, role, running, queue, abort,
                   histVars>>
    /\ UNCHANGED callerVars

\* lines 345-357: the remaining messages are sent, a failure is ignored,
\* the socket is closed and the output goes to the output handler.
SH_Flush(h) ==
    /\ pc[h] = "flush"
    /\ IF queue[h] = <<>>
       THEN /\ sock' = [sock EXCEPT ![h] = "closed"]
            /\ pc' = [pc EXCEPT ![h] = "dead"]
            /\ Output(hout[h])
            /\ hout' = [hout EXCEPT ![h] = {}]
            /\ UNCHANGED <<queue, wire>>
       ELSE \E s \in PeerAfter(sock[h]) :
               IF s = "reset"
               THEN /\ queue' = [queue EXCEPT ![h] = QueueRest(@)]
                    /\ sock' = [sock EXCEPT ![h] = "closed"]
                    /\ pc' = [pc EXCEPT ![h] = "dead"]
                    /\ Output(hout[h] \cup {"xmit"})
                    /\ hout' = [hout EXCEPT ![h] = {}]
                    /\ wire' = wire
               ELSE /\ SendAll(h, s)
                    /\ NoOut
                    /\ pc' = pc
    /\ NoCall /\ NoErr
    /\ UNCHANGED <<epVars, accVars, dpc, sh, role, running, abort,
                   nextH, nbuf, nsent, qdata, stopped>>
    /\ UNCHANGED callerVars

\* The loop of a handler without the calls of sendData.
HandlerLoop ==
    \E h \in Handlers :
        \/ SH_RunStart(h)
        \/ SH_PollFails(h)
        \/ SH_PollIdle(h)
        \/ SH_RecvFails(h)
        \/ Icpt_Drop(h)
        \/ Icpt_Raises(h)
        \/ SH_SendCheck(h)
        \/ SH_CheckRunning(h)
        \/ SH_Flush(h)

\* The packet handler forwarding and the handler sending its queue.
HandlerData == \E h \in Handlers : Icpt_Forward(h) \/ SH_SendOne(h)

(***************************************************************************)
(* The command loop (src/application.py, src/core_parser.py,               *)
(* src/base_parser.py) calling the endpoint from its own thread.  After    *)
(* shutdown() it joins the accept thread and calls nothing else.           *)
(***************************************************************************)
CliIdle == pc[CLI] = "idle" /\ dpc[CLI] = "idle" /\ ~isShutdown

\* A shutdown() that flips the flag instead of setting it.
ShutdownFlagToggled(old) == ~old

\* line 132: self._isShutdown = True
ShutdownFlag(old) == TRUE

\* Proxy.shutdown, lines 131-133; nothing is passed to the output handler
Shutdown ==
    /\ CliIdle
    /\ isShutdown' = ShutdownFlag(isShutdown)
    /\ NoCall /\ NoErr
    /\ out' = {}
    /\ unreported' = TRUE
    /\ shutdownConnected' = connected
    /\ UNCHANGED <<connected, client, server, bindSocket, lock, accVars,
                   thrVars, hdlVars, histVars>>
    /\ UNCHANGED regVars

\* Proxy.shutdown, lines 131-133, called a second time; the command loop
\* calls nothing after it.
Shutdown_Again ==
    /\ pc[CLI] = "idle" /\ dpc[CLI] = "idle"
    /\ isShutdown
    /\ isShutdown' = ShutdownFlag(isShutdown)
    /\ pc' = [pc EXCEPT ![CLI] = "twice"]
    /\ NoEvent
    /\ UNCHANGED <<connected, client, server, bindSocket, lock, accVars,
                   dpc, sh, hdlVars, histVars>>
    /\ UNCHANGED callerVars

\* a call of Proxy.disconnect
Cli_Disconnect ==
    /\ CliIdle
    /\ dpc' = [dpc EXCEPT ![CLI] = "lock"]
    /\ NoEvent
    /\ UNCHANGED <<epVars, accVars, pc, sh, hdlVars, histVars>>
    /\ UNCHANGED callerVars

\* a call of Proxy.sendData(destination, data)
Cli_SendData ==
    /\ CliIdle
    /\ \E destination \in {"CLIENT", "SERVER"} :
          SendData_Read(CLI, destination)
    /\ NoEvent
    /\ UNCHANGED <<epVars, accVars, dpc, hdlVars, nextH, nsent, qdata, wire, stopped>>
    /\ UNCHANGED callerVars

(***************************************************************************)
(* Application (src/application.py): the registry of proxies, operated by  *)
(* the command loop.  The endpoint of each Proxy object is reduced to the  *)
(* state of its accept thread.                                             *)
(***************************************************************************)
\* lines 265-270 and 308-313: the tests that raise ValueError
IsValidName(n) == n # NoName /\ Len(n) # 0 /\ n[1] \notin Digits

\* Application.getProxyByName, lines 196-200, for a name that is a key
getProxyByName(n) == IF n = NoName THEN NoProxy ELSE proxies[n]

\* Application.getSelectedProxy, lines 189-190
getSelectedProxy == getProxyByName(selectedProxyName)

\* The proxies the command loop can name: the values of _proxies.
Registered == {proxies[n] : n \in Names} \ {NoProxy}

\* Everything but the registry and the error of the step stays as it is.
RegistryStep ==
    /\ pc[CLI] = "idle" /\ dpc[CLI] = "idle"
    /\ NoCall /\ NoOut
    /\ UNCHANGED <<epVars, accVars, thrVars, hdlVars, histVars,
                   shutdownConnected>>

\* A createProxy that enters the name before the Proxy is constructed.
ProxiesAfterCreateEarly(proxyName, p, bound) ==
    [proxies EXCEPT ![proxyName] = p]

\* lines 276-281: the constructor of Proxy binds the listening socket
\* (src/proxy.py line 54); when it raises, line 281 is not reached.
ProxiesAfterCreate(proxyName, p, bound) ==
    IF bound THEN [proxies EXCEPT ![proxyName] = p] ELSE proxies

\* Application.createProxy, lines 264-286; bound: _bind() succeeds.
CreateProxy(proxyName, bound) ==
    /\ RegistryStep
    /\ joining = NoProxy
    /\ IF ~IsValidName(proxyName) \/ proxies[proxyName] # NoProxy
       THEN /\ err' = <<CLI, "createProxy">>
            /\ UNCHANGED callerVars
       ELSE /\ nextP < MaxProxies
            /\ nextP' = nextP + 1
            /\ pname' = [pname EXCEPT ![nextP + 1] = proxyName]
            /\ proxies' = ProxiesAfterCreate(proxyName, nextP + 1, bound)
            /\ parsers' = IF bound THEN parsers \cup {nextP + 1} ELSE parsers
            /\ pthread' = [pthread EXCEPT ![nextP + 1] =
                              IF bound THEN "started" ELSE "unbound"]
            /\ err' = IF bound THEN <<>> ELSE <<CLI, "createProxy">>
            /\ UNCHANGED <<selectedProxyName, joining>>

\* Application.selectProxy, lines 246-253
SelectProxy(proxy) ==
    /\ RegistryStep
    /\ joining = NoProxy
    /\ proxy \in Registered \cup {NoProxy}
    /\ selectedProxyName' = IF proxy = NoProxy THEN NoName ELSE pname[proxy]
    /\ NoErr
    /\ UNCHANGED <<proxies, parsers, pname, pthread, nextP, joining>>

\* A rename that enters the new key and leaves the old one in place.
ProxiesAfterRenameKeepOld(proxy, newName) ==
    [proxies EXCEPT ![newName] = proxies[pname[proxy]]]

\* line 315: self._proxies[newName] = self._proxies.pop(proxy.name)
ProxiesAfterRename(proxy, newName) ==
    [proxies EXCEPT ![newName] = proxies[pname[proxy]],
                    ![pname[proxy]] = NoProxy]

\* Application.renameProxy, lines 307-323
RenameProxy(proxy, newName) ==
    /\ RegistryStep
    /\ joining = NoProxy
    /\ proxy \in Registered
    /\ IF ~IsValidName(newName) \/ proxies[newName] # NoProxy
       THEN /\ err' = <<CLI, "renameProxy">>
            /\ UNCHANGED callerVars
       ELSE /\ proxies' = ProxiesAfterRename(proxy, newName)
            /\ selectedProxyName' = IF selectedProxyName = pname[proxy]
                                    THEN newName ELSE selectedProxyName
            /\ pname' = [pname EXCEPT ![proxy] = newName]
            /\ NoErr
            /\ UNCHANGED <<parsers, pthread, nextP, joining>>

\* Application.killProxy, lines 288-296: deselect, pop, shutdown(), and
\* the call of join()
KillProxy(proxy) ==
    /\ RegistryStep
    /\ joining = NoProxy
    /\ proxy \in Registered
    /\ selectedProxyName' = IF getSelectedProxy = proxy
                            THEN NoName ELSE selectedProxyName
    /\ proxies' = [proxies EXCEPT ![pname[proxy]] = NoProxy]
    /\ pthread' = [pthread EXCEPT ![proxy] = "shutdown"]
    /\ joining' = proxy
    /\ NoErr
    /\ UNCHANGED <<parsers, pname, nextP>>

\* lines 296-300: join() returns once run() has ended; the parser goes.
KillProxy_Joined ==
    /\ RegistryStep
    /\ joining # NoProxy
    /\ pthread' = [pthread EXCEPT ![joining] = "joined"]
    /\ parsers' = parsers \ {joining}
    /\ joining' = NoProxy
    /\ NoErr
    /\ UNCHANGED <<proxies, selectedProxyName, pname, nextP>>

(***************************************************************************)
(* Specifications                                                          *)
(***************************************************************************)
\* The connection lifecycle: every thread of the endpoint and every call of
\* the command loop except sendData, so the queues stay empty.
Next ==
    \/ AcceptThread \/ Disconnect \/ HandlerLoop
    \/ Shutdown \/ Shutdown_Again \/ Cli_Disconnect

Spec == Init /\ [][Next]_vars

\* The data path: the lifecycle with the sendData calls of the packet
\* handler and of the command loop, for the first client that connects: no
\* client connects once a client handler has been constructed.
WaitForClient_AcceptFirst == nextH = 0 /\ WaitForClient_Accept

DataNext ==
    \/ AcceptLoop \/ WaitForClient_AcceptFirst
    \/ Disconnect \/ HandlerLoop \/ HandlerData \/ SendData
    \/ Shutdown \/ Cli_Disconnect \/ Cli_SendData

DataSpec == Init /\ [][DataNext]_vars

\* The registry: the operations of the command loop on the proxy table,
\* with every name it can type, with a bind that succeeds or fails, and on
\* the proxies it can look up (those of the table).
RegNext ==
    \/ \E proxyName \in Names \cup {NoName}, bound \in BOOLEAN :
          CreateProxy(proxyName, bound)
    \/ \E proxy \in ProxyIds \cup {NoProxy} : SelectProxy(proxy)
    \/ \E proxy \in ProxyIds, newName \in Names \cup {NoName} :
          RenameProxy(proxy, newName)
    \/ \E proxy \in ProxyIds : KillProxy(proxy)
    \/ KillProxy_Joined

RegSpec == Init /\ [][RegNext]_vars

(***************************************************************************)
(* Properties                                                              *)
(***************************************************************************)
\* Proxy.getIsConnected, lines 213-214
getIsConnected == connected

\* A handler is running: its thread has been started and stop() has not
\* been called on it.
IsRunning(h) == pc[h] \notin {"unborn", "new"} /\ ~stopped[h]

\* No thread is between the first and the last step of an operation on the
\* endpoint: the lock is free, the accept thread is at the top of its loop,
\* waiting in accept() or finished, and no thread is inside disconnect().
AtRest ==
    /\ ~lock
    /\ apc \in {<<"while">>, <<"accept">>, <<"done">>}
    /\ \A t \in Threads : dpc[t] = "idle"

\* C1: whenever no operation on the endpoint is in progress,
\* getIsConnected() is true if and only if the endpoint references a client
\* handler and a server handler and both are running.
C1_ConnectedIffBothRunning ==
    AtRest =>
        (getIsConnected <=>
            /\ client # None /\ server # None
            /\ IsRunning(client) /\ IsRunning(server))

\* C1, the state of its failing input: a second client was accepted while
\* the endpoint was connected, the old handlers were torn down and the
\* constructor or the dial failed; the flag is set with no handler left.
C1_ConnectedWithoutHandlers ==
    /\ AtRest
    /\ getIsConnected
    /\ client = None /\ server = None
    /\ err = <<>>

\* Thread t is inside disconnect() waiting for the endpoint lock, which
\* another thread holds.
WaitsForLock(t) == dpc[t] = "lock" /\ lock

\* C2: after a failed dial the accept thread can complete the discard of the
\* just-accepted client handler and return to Listening with the lock
\* released, whatever the client and the packet handler do: while it waits
\* in join() (line 103) holding the lock, the handler it waits for is never
\* itself waiting for that lock.
C2_DiscardCompletes ==
    apc = <<"fail_join">> => ~WaitsForLock(client)

\* C2, the state of its failing input: the client has closed its socket, its
\* handler has read the end of the stream and waits in disconnect() for the
\* lock; the accept thread holds the lock and waits in join() for the handler.
C2_DiscardDeadlocked ==
    /\ apc = <<"fail_join">>
    /\ WaitsForLock(client)
    /\ sock[client] = "eof"
    /\ ~ENABLED (AcceptThread \/ HandlerLoop \/ Disconnect)

\* shutdown() has been called and join() on the accept thread returns:
\* Proxy.run has returned.
ShutdownJoined == isShutdown /\ apc = <<"done">>

\* C3: once shutdown() has been called and the accept thread has been
\* joined, the listening socket is closed and no handler thread that was
\* ever started is alive: each has closed its socket.
C3_NothingLeftAfterShutdown ==
    ShutdownJoined =>
        /\ bindSocket = "closed"
        /\ \A h \in Handlers :
              pc[h] \notin {"unborn", "new"} =>
                  ~IsAlive(h) /\ sock[h] = "closed"

\* C3, the state of its failing input: run() has returned and a handler that
\* disconnect() detached without joining it is alive with _running set; its
\* thread set the flag after stop() had cleared it and stays in its loop.
C3_HandlerOutlivesShutdown ==
    /\ ShutdownJoined
    /\ \E h \in Handlers :
          /\ IsAlive(h) /\ running[h] /\ stopped[h]
          /\ sock[h] = "up"

StrictlyIncreasing(s) == \A i, j \in 1..Len(s) : i < j => s[i] < s[j]

\* C4: for every handler, the buffers written to its socket followed by the
\* buffers still in its queue are in enqueue order: a buffer is written
\* before every buffer enqueued after it, whichever threads enqueued them.
C4_WrittenInEnqueueOrder ==
    \A h \in Handlers : StrictlyIncreasing(wire[h] \o queue[h])

\* C4, its case: a handler has written two buffers that were enqueued on it.
C4_TwoBuffersWritten ==
    \E h \in Handlers : Len(wire[h]) >= 2 /\ nsent[h] >= 2

RECURSIVE SumTo(_, _)
SumTo(f, n) == IF n = 0 THEN 0 ELSE f[n] + SumTo(f, n - 1)

\* C5: sendData never raises and is never blocked, and a call that finds no
\* handler for its destination enqueues nothing: a put is only ever pending
\* on a handler that the call found, and the buffers enqueued on all
\* handlers never outnumber the calls that found a handler.  This holds
\* also when the reference is cleared between the read and the put.
C5_SendDataToAbsentHandler ==
    /\ \A t \in Threads :
          /\ err # <<t, "sendData">>
          /\ pc[t] = "put" => sh[t] # None /\ ENABLED SendData_Put(t)
    /\ SumTo(nsent, MaxHandlers) <= nbuf

\* C5, its case: a sendData call has read the handler of its destination
\* and disconnect() has cleared that reference before the call puts the
\* data on the handler's queue.
C5_ReferenceClearedDuringSendData ==
    \E t, u \in Threads :
        /\ pc[t] = "put"
        /\ sh[t] # None
        /\ stopped[sh[t]]
        /\ RefOf(role[sh[t]]) = None
        /\ dpc[u] = "conn"

\* Thread t returns from the disconnect() it called, or is thrown out of it.
LeavesDisconnect(t) == dpc[t] # "idle" /\ dpc'[t] = "idle"

\* The connection is torn down: the endpoint is not connected, it references
\* no handler that was started, and every handler thread still alive has
\* _running false, so that its loop ends and its socket is closed.
TornDown ==
    /\ ~connected
    /\ \A r \in {"CLIENT", "SERVER"} : RefOf(r) = None \/ pc[RefOf(r)] = "new"
    /\ \A g \in Handlers : IsAlive(g) => ~running[g]

\* The output list of handler h reports a fatal I/O error.
FatalError(h) == hout[h] \cap {"recv", "xmit"} # {}

\* C6: when the disconnect() that a handler called on a fatal I/O error
\* returns, the connection is torn down: both handlers are stopped, their
\* references are cleared and the endpoint is not connected.
C6_FatalErrorDisconnects ==
    [][\A h \in Handlers :
          FatalError(h) /\ LeavesDisconnect(h) => TornDown']_vars

\* C6, the state of its failing input: the client closed its socket, the
\* client handler disconnected the endpoint and has closed its socket, and
\* the server handler, which set _running after stop() had cleared it, stays
\* in its loop with the server-side socket open.
C6_ServerSocketStaysOpen ==
    /\ AtRest /\ ~isShutdown /\ ~connected
    /\ client = None /\ server = None
    /\ \E c, g \in Handlers :
          /\ role[c] = "CLIENT" /\ pc[c] = "dead" /\ sock[c] = "closed"
          /\ role[g] = "SERVER" /\ g = c + 1
          /\ IsAlive(g) /\ running[g] /\ stopped[g] /\ sock[g] = "up"

\* C7: an exception of the packet handler is caught and reported: its report
\* leaves the output list of the handler only by going to the output
\* handler, the handler thread is not ended by an exception, and when the
\* disconnect() called for it returns the connection is torn down.
C7_InterceptorFailureDisconnects ==
    [][\A h \in Handlers :
          "parse" \in hout[h] =>
              /\ pc'[h] # "crashed"
              /\ "parse" \in hout'[h] \/ "parse" \in out'
              /\ LeavesDisconnect(h) => TornDown']_vars

\* C7, the state of its failing input: the dial failed, the packet handler
\* raised on the data of the just-accepted client, and the client handler
\* waits in disconnect() for the lock that the accept thread holds while it
\* waits in join() for that handler.
C7_InterceptorFailureDeadlocked ==
    /\ apc = <<"fail_join">>
    /\ WaitsForLock(client)
    /\ "parse" \in hout[client]
    /\ sock[client] = "up"
    /\ ~ENABLED (AcceptThread \/ HandlerLoop \/ Disconnect)

\* The step in which recv() on the socket of handler h returns no bytes.
ZeroLengthRead(h) ==
    /\ pc[h] = "poll" /\ pc'[h] # "poll"
    /\ sock'[h] = "eof"
    /\ err' = <<>>

\* C8: a read of no bytes is a fatal I/O error: the handler sets abort,
\* reports the error, does not call the packet handler, and calls
\* disconnect() on the endpoint when it reaches the end of the iteration;
\* the packet handler is never called with empty data.
C8_ZeroLengthReadIsFatal ==
    [][/\ called' # <<>> => called'[2] # Empty
       /\ \A h \in Handlers :
             /\ ZeroLengthRead(h) =>
                   abort'[h] /\ "recv" \in hout'[h] /\ called' = <<>>
             /\ pc[h] # "chk" /\ pc'[h] = "chk" /\ abort'[h] =>
                   dpc'[h] = "lock"]_vars

\* C8, its case: a handler has read no bytes from its socket and is calling
\* disconnect() for it.
C8_ZeroLengthReadDisconnects ==
    \E h \in Handlers :
        /\ sock[h] = "eof"
        /\ abort[h] /\ "recv" \in hout[h]
        /\ pc[h] = "chk" /\ dpc[h] = "lock"
        /\ connected

\* The endpoint is Connected: the flag is set and both handlers are referenced.
Connected == connected /\ client # None /\ server # None

\* accept() returns the socket of a new client.
AcceptReturns == apc = <<"accept">> /\ apc' = <<"wfc", "CLIENT", "chk">>

\* C9 as the specification states it: while the endpoint is Connected no
\* accept is performed and its handlers are not replaced.
C9_NoAcceptWhileConnected ==
    [][Connected => ~AcceptReturns]_vars

\* C9: the accept loop accepts a client also while the endpoint is
\* Connected; the handler of a new client is installed only when the
\* endpoint references neither a client handler nor a server handler (the
\* accept thread has stopped, joined and cleared the ones it found), and it
\* is installed not yet started.
C9_ClientInstalledOnlyWhenNoneReferenced ==
    [][client' # client /\ client' # None =>
          /\ client = None /\ server = None
          /\ pc'[client'] = "new"]_vars

\* C9, its case: a second client has been accepted while the endpoint was
\* connected; the old handlers have been stopped, joined and cleared, and
\* the handler of the new client is installed.
C9_SecondClientInstalled ==
    /\ connected
    /\ client # None /\ pc[client] = "new" /\ server = None
    /\ \E c, g \in Handlers :
          /\ role[c] = "CLIENT" /\ role[g] = "SERVER"
          /\ c # client
          /\ stopped[c] /\ stopped[g] /\ Finished(c) /\ Finished(g)

\* Handler h exists: it has been constructed and has not closed its socket.
Exists(h) == sock[h] \notin {"none", "closed"}

\* C10: at every moment at most one client handler and at most one server
\* handler exist, counting the handlers the endpoint no longer references.
C10_AtMostOneHandlerPerRole ==
    \A r \in {"CLIENT", "SERVER"} :
        Cardinality({h \in Handlers : role[h] = r /\ Exists(h)}) <= 1

\* C10, the state of its failing input: the handler of the next client is
\* installed while the client handler that disconnect() detached is alive
\* with its socket open.
C10_DetachedHandlerOutlivesNextClient ==
    /\ client # None /\ pc[client] = "new"
    /\ \E c \in Handlers :
          /\ role[c] = "CLIENT" /\ c # client
          /\ IsAlive(c) /\ stopped[c] /\ sock[c] = "up"
          /\ aj # c

\* The step writes _client, _server or _connected.
WritesEndpointState ==
    client' # client \/ server' # server \/ connected' # connected

\* C11: every step that writes _client, _server or _connected is taken
\* while the endpoint lock is held, so that disconnect() cannot interleave
\* with the accept thread's teardown, handler creation and shutdown cleanup.
C11_WritesHoldTheLock ==
    [][WritesEndpointState => lock]_vars

\* C11, the state of its failing input: disconnect() and the teardown of
\* _waitForClient() have interleaved; the accept thread cleared a reference
\* between the test and the stop() of disconnect(), which raised out of
\* the call with _connected still set.
C11_DisconnectInterleavedWithTeardown ==
    /\ \E t \in Threads : err = <<t, "disconnect">>
    /\ apc[1] = "wfc"
    /\ connected

\* Proxy.run has ended: it returned, or an exception left it.
AcceptThreadEnded == apc \in {<<"done">>, <<"crashed">>}

\* C12: as long as shutdown() has not been called the accept thread has
\* not ended: nothing that clients, the remote host, the packet handler or
\* callers of disconnect() do makes it return or raise out of run().
C12_AcceptThreadEndsOnlyAfterShutdown ==
    ~isShutdown => ~AcceptThreadEnded

\* C12, the state of its failing input: an AttributeError has ended the
\* accept thread; shutdown() was never called, the listening socket is open
\* and nothing serves it.
C12_ListeningSocketUnserved ==
    /\ apc = <<"crashed">>
    /\ ~isShutdown
    /\ bindSocket = "open"
    /\ ~lock

\* The accept thread waits in the join() of line 103, holding the lock, for
\* a handler that waits for the lock: neither can ever continue.
FailJoinDeadlock == apc = <<"fail_join">> /\ WaitsForLock(client)

\* The terminal state Dead: run() has returned, the listening socket is
\* closed and no handler is referenced.
Dead ==
    /\ apc = <<"done">>
    /\ bindSocket = "closed"
    /\ client = None /\ server = None

\* C13: once shutdown() has been called the accept thread can reach Dead
\* from wherever it is and ends nowhere else: it is not blocked for good,
\* and when run() has ended it has returned with the listening socket
\* closed and the handlers it referenced stopped, joined and cleared.
C13_ShutdownReachesDead ==
    isShutdown =>
        /\ ~FailJoinDeadlock
        /\ AcceptThreadEnded => Dead

\* C13, the state of its failing input: shutdown() was called during a
\* connect attempt; the dial failed and the accept thread is deadlocked with
\* the client handler, the listening socket still open.
C13_ShutdownNeverCompletes ==
    /\ isShutdown
    /\ FailJoinDeadlock
    /\ bindSocket = "open"
    /\ ~ENABLED (AcceptThread \/ HandlerLoop \/ Disconnect)

\* A step of disconnect() that changes nothing of the endpoint, stops no
\* handler and raises nothing.
DisconnectNoOp ==
    /\ UNCHANGED <<client, server, connected, isShutdown, bindSocket>>
    /\ UNCHANGED <<running, stopped>>
    /\ err' = <<>>

\* C14: a disconnect() that finds no client handler, no server handler and
\* the flag not set goes through its three steps (the two tests and the
\* assignment of the flag) without changing the handler references, the
\* connected flag, the shutdown flag or the listening socket, without
\* stopping a handler and without raising.
C14_DisconnectWhenDisconnected ==
    [][\A t \in Threads :
          /\ dpc[t] = "lock" /\ dpc'[t] # "lock" /\ client = None =>
                dpc'[t] = "s_chk" /\ DisconnectNoOp
          /\ dpc[t] = "s_chk" /\ dpc'[t] # "s_chk" /\ server = None =>
                dpc'[t] = "conn" /\ DisconnectNoOp
          /\ dpc[t] = "conn" /\ dpc'[t] # "conn" /\ ~connected =>
                dpc'[t] = "idle" /\ ~lock' /\ DisconnectNoOp]_vars

\* C14, its case: a first disconnect() has completed (the flag is not set
\* and no handler is referenced); the detached server handler has called
\* disconnect() a second time and has found no client handler.
C14_SecondDisconnect ==
    \E h \in Handlers :
        /\ role[h] = "SERVER" /\ stopped[h]
        /\ dpc[h] = "s_chk"
        /\ client = None /\ server = None /\ ~connected

\* The step in which the command loop calls shutdown() a second time.
SecondShutdown == pc[CLI] = "idle" /\ pc'[CLI] = "twice"

\* C15: a second shutdown() changes no state of the endpoint and raises
\* nothing, whether the accept thread has ended or not; the flag stays set,
\* and an endpoint that is Dead stays Dead.
C15_SecondShutdownIsNoOp ==
    [][/\ SecondShutdown =>
             /\ UNCHANGED <<epVars, accVars, dpc, sh, hdlVars, histVars>>
             /\ err' = <<>>
       /\ isShutdown => isShutdown'
       /\ isShutdown /\ Dead => Dead']_vars

\* C15, its case: shutdown() has been called a second time and the endpoint
\* is Dead.
C15_ShutdownCalledTwice ==
    /\ pc[CLI] = "twice"
    /\ isShutdown
    /\ Dead

\* A step of some thread inside disconnect().
DisconnectStep == \E t \in Threads : dpc'[t] # dpc[t]

\* C16: disconnect() leaves the listen state untouched: none of its steps
\* changes the listening socket, the shutdown flag or the position of the
\* accept thread, and the accept loop keeps running after it: the accept
\* thread is not ended by a reference that disconnect() cleared, so that a
\* client connecting afterwards is accepted.
C16_DisconnectKeepsListening ==
    [][/\ DisconnectStep => UNCHANGED <<bindSocket, isShutdown, apc>>
       /\ ~isShutdown => apc' # <<"crashed">>]_vars

\* C16, the state of its failing input: a disconnect() has completed, the
\* endpoint is disconnected with the listening socket open and shutdown()
\* not called, and the accept thread has ended: no client is accepted.
C16_DisconnectEndedAcceptLoop ==
    /\ apc = <<"crashed">>
    /\ ~isShutdown /\ bindSocket = "open"
    /\ ~connected /\ client = None /\ server = None
    /\ \A t \in Threads : dpc[t] = "idle"
    /\ \E h \in Handlers : stopped[h]

\* Everything an operation set off has run its course: no operation on the
\* endpoint is in progress, every handler thread that was started has
\* returned from run() (so every output list was passed on, lines 344 and
\* 356), and after shutdown() the accept thread has returned from run().
Settled ==
    /\ AtRest
    /\ \A h \in Handlers : ~IsAlive(h)
    /\ isShutdown => apc = <<"done">>

\* The accept thread ends an iteration of run() in which it accepted a
\* client and entered the with block of line 92.
ConnectAttemptEnds ==
    /\ apc[1] \in {"connect", "fail_start", "fail_stop", "fail_join",
                   "fail_clear", "ok_start_client", "ok_start_server",
                   "ok_connected"}
    /\ apc' \in {<<"while">>, <<"crashed">>}

\* C17: every state transition of the endpoint and every absorbed error puts
\* a line into a list that reaches the output handler.  The iteration of run()
\* that accepted a client reports the client and the dial; the step that
\* sets the connected flag reports the connection; a failed dial and a
\* failed handler construction are reported; a handler's list (its receive,
\* send and interceptor errors) is never dropped; an accept timeout passes
\* no line; and once a disconnect (by a handler error or by a call of
\* disconnect()) or a shutdown has run its course, a line has been passed
\* since it happened.
C17_TransitionsAndErrorsReported ==
    [][/\ ConnectAttemptEnds => {"client", "connecting"} \subseteq out'
       /\ ~connected /\ connected' => "established" \in out'
       /\ apc = <<"connect">> /\ apc' = <<"fail_start">> => "unable" \in out'
       /\ apc = <<"fail_clear">> /\ apc' # apc => "nodial" \in out'
       /\ apc = <<"wfc_new">> /\ apc' = <<"while">> => out' # {}
       /\ \A h \in Handlers : hout[h] \subseteq hout'[h] \cup out'
       /\ apc = <<"accept">> /\ apc' = <<"while">> => out' = {}
       /\ Settled' => ~unreported']_vars

\* C17 (the case of disconnect()): the command loop has called disconnect()
\* on the connected endpoint, both handlers have stopped and closed their
\* sockets, the endpoint listens again, and nothing has been passed to the
\* output handler since the call.
C17_DisconnectWithoutALine ==
    /\ unreported /\ Settled
    /\ ~isShutdown /\ ~connected /\ client = None /\ server = None
    /\ \E c, v \in Handlers :
          /\ role[c] = "CLIENT" /\ role[v] = "SERVER"
          /\ pc[c] = "dead" /\ pc[v] = "dead"

\* Thread t returns from the sh.send(data) of line 139, called on handler h.
SendReturns(t, h) == pc[t] = "put" /\ pc'[t] # "put" /\ SendTarget(t) = h

\* Handler h was constructed and never started.
NeverStarted(h) == pc[h] = "new"

\* Handler h has closed its socket (lines 353-354).
Closed(h) == sock[h] = "closed"

\* C18: a contract violation on a SocketHandler raises an error to the
\* caller and is not accepted: a start() of a handler that was started
\* before raises out of run() and starts nothing, and a send() on a handler
\* that was never started, or that has closed its socket, raises to the
\* thread that called it and leaves the handler's queue as it was.
C18_ContractViolationsRaise ==
    [][/\ apc[1] \in {"fail_start", "ok_start_client"} /\ apc' # apc
          /\ client # None /\ ~NeverStarted(client)
          => apc' = <<"crashed">> /\ pc' = pc
       /\ \A h \in Handlers : ~NeverStarted(h) /\ pc[h] # "unborn"
                                 => pc'[h] # "started"
       /\ \A t \in Threads, h \in Handlers :
             SendReturns(t, h) /\ (NeverStarted(h) \/ Closed(h))
             => err' = <<t, "sendData">> /\ queue'[h] = queue[h]]_vars

\* C18 (the case of the closed socket): a handler that has sent its queue
\* and closed its socket holds a buffer that was put on its queue afterwards.
C18_BufferAcceptedAfterClose ==
    \E h \in Handlers : Closed(h) /\ pc[h] = "dead" /\ queue[h] # <<>>

\* stop() is called on handler h in this step (lines 273-277).
StopCalled(h) == (running[h] /\ ~running'[h]) \/ (~stopped[h] /\ stopped'[h])

\* A receive, send or close on the socket of handler h happens in this step.
SocketUsed(h) == sock'[h] # sock[h] \/ wire'[h] # wire[h]

\* The step is one of the thread of handler h: it is at a socket operation
\* of run() (lines 321-331, 350-353), and neither the accept thread nor the
\* command loop nor another handler's thread has moved.
OwnThreadStep(h) ==
    /\ pc[h] \in {"poll", "sending", "flush"}
    /\ apc' = apc /\ isShutdown' = isShutdown
    /\ \A t \in Threads \ {h} :
          pc'[t] = pc[t] /\ dpc'[t] = dpc[t] /\ sh'[t] = sh[t]
    /\ \A g \in Handlers \ {h} : sock'[g] = sock[g] /\ wire'[g] = wire[g]

\* C19: stop() on a handler sets its running flag to false and does nothing
\* to its socket or its queue; and once a handler has been constructed,
\* every receive, send and close on its socket is a step of the handler's
\* own thread, never of the accept thread, of the command loop or of another
\* handler's thread.
C19_OnlyOwnThreadUsesSocket ==
    [][\A h \in Handlers :
          /\ StopCalled(h) => /\ ~running'[h]
                              /\ sock'[h] = sock[h]
                              /\ wire'[h] = wire[h]
                              /\ queue'[h] = queue[h]
          /\ pc[h] # "unborn" /\ SocketUsed(h) => OwnThreadStep(h)]_vars

\* C19: stop() has been called on a running handler that still has a buffer
\* to send; its socket is open and left to the handler's thread, which has
\* not yet read the flag.
C19_StoppedHandlerOwnsItsSocket ==
    \E h \in Handlers :
        /\ stopped[h] /\ ~running[h]
        /\ pc[h] \in {"poll", "sending"}
        /\ sock[h] = "up" /\ queue[h] # <<>>

\* The accept thread is between accepting a client (line 192) and the
\* outcome of the connect attempt (line 105 or line 111).
ConnectAttemptWindow ==
    apc[1] \in {"lock", "connect", "fail_start", "fail_stop", "fail_join",
                "fail_clear", "ok_start_client", "ok_start_server",
                "ok_connected"}

\* The accept thread, holding the lock, is between the successful dial
\* (line 206) and the setting of the connected flag (line 111).
EstablishWindow ==
    lock /\ apc[1] \in {"ok_start_client", "ok_start_server", "ok_connected"}

\* C20: while the connected flag is false the endpoint references no server
\* handler, except inside the locked section that has just dialled the
\* remote host and is about to set the flag; and it references a client
\* handler only between accepting the client and the outcome of the connect
\* attempt.
C20_NoServerUnlessConnected ==
    ~connected =>
        /\ server # None => EstablishWindow
        /\ client # None => ConnectAttemptWindow

\* C20: the accept thread has ended, the lock is free and the connected flag
\* is false, and the endpoint references a server handler that was never
\* started.
C20_ServerReferencedWhenNotConnected ==
    /\ ~connected /\ ~lock /\ apc = <<"crashed">>
    /\ server # None /\ pc[server] = "new"
    /\ \A t \in Threads : dpc[t] = "idle"

\* The constructor of Proxy object p raises in _bind() in this step.
BindFails(p) == pthread[p] = "none" /\ pthread'[p] = "unbound"

\* C21: when the listening socket cannot be bound, createProxy raises to
\* the caller and leaves the proxy table, the parser table and the selection
\* as they were; the Proxy whose constructor raised is never started and
\* never has an entry in either table.
C21_BindFailureLeavesRegistry ==
    [][\A p \in ProxyIds :
          /\ BindFails(p) =>
                /\ err' = <<CLI, "createProxy">>
                /\ UNCHANGED <<proxies, parsers, selectedProxyName>>
          /\ pthread[p] = "unbound" =>
                /\ pthread'[p] = "unbound"
                /\ p \notin parsers' /\ p \notin Registered']_vars

\* C21: createProxy has just raised because the bind failed, and neither
\* table has an entry for the proxy or its name.
C21_BindFailed ==
    \E p \in ProxyIds :
        /\ pthread[p] = "unbound" /\ err = <<CLI, "createProxy">>
        /\ IsValidName(pname[p]) /\ proxies[pname[p]] = NoProxy
        /\ p \notin parsers

\* Every key of the proxy table is the name of the proxy it maps to, and no
\* two proxies of the table have the same name.
RegistryConsistent ==
    /\ \A n \in Names : proxies[n] # NoProxy => pname[proxies[n]] = n
    /\ \A p, q \in Registered : p # q => pname[p] # pname[q]

\* Proxy p, constructed before, gets another name in this step.
Renamed(p) == pthread[p] # "none" /\ pname'[p] # pname[p]

\* C22: after every operation on the registry the names of its proxies are
\* unique and every key is the name of the proxy it maps to; no operation
\* puts a proxy under a key that is in use; a createProxy or renameProxy
\* that raises leaves the proxy table, the parser table and the selection
\* alone; and a rename changes the name of that one proxy, its key and the
\* selected name if it was selected, and nothing of the endpoint: not its
\* accept thread, its listening socket, its handlers or its connected flag.
C22_NamesUniqueAndRenameOnlyRenames ==
    [][/\ RegistryConsistent'
       /\ \A n \in Names :
             proxies[n] # NoProxy => proxies'[n] \in {proxies[n], NoProxy}
       /\ err' \in {<<CLI, "createProxy">>, <<CLI, "renameProxy">>} =>
             /\ UNCHANGED <<proxies, parsers, selectedProxyName>>
             /\ \A p \in Registered : pname'[p] = pname[p]
       /\ \A p \in ProxyIds : Renamed(p) =>
             /\ proxies'[pname'[p]] = p /\ proxies'[pname[p]] = NoProxy
             /\ \A q \in ProxyIds \ {p} : pname'[q] = pname[q]
             /\ \A n \in Names \ {pname[p], pname'[p]} : proxies'[n] = proxies[n]
             /\ selectedProxyName' = IF selectedProxyName = pname[p]
                                     THEN pname'[p] ELSE selectedProxyName
             /\ UNCHANGED <<parsers, pthread, nextP, joining>>
             /\ UNCHANGED <<epVars, accVars, thrVars, hdlVars, histVars>>]_vars

\* C22: a renameProxy has just raised while two proxies are in the table,
\* one of them selected, and a third has been killed.
C22_RenameRefused ==
    /\ err = <<CLI, "renameProxy">>
    /\ Cardinality(Registered) = 2
    /\ getSelectedProxy \in Registered
    /\ \E p \in ProxyIds : pthread[p] = "joined"

\* The handler of the connection's other side, as the endpoint names it
\* (lines 136, 142-148).
OtherSide(h) == IF role[h] = "CLIENT" THEN server ELSE client

\* Handler h has received a chunk that is not empty in this step (line 365).
Received(h) == rcv' # <<>> /\ rcv'[1] = h /\ rcv'[2] # Empty

\* Handler h's packet handler has passed the chunk on in this step (the
\* handler is inside sendData on its return, line 139).
PassedOn(h) == Received(h) /\ pc'[h] = "put"

\* The buffers written to handler h's socket are buffers enqueued on it, in
\* the order they were enqueued, each the chunk that was received.
WrittenInOrder(h) ==
    /\ \A i \in 1..Len(wire[h]) :
          /\ wire[h][i] \in 1..Len(qdata[h])
          /\ qdata[h][wire[h][i]] = Chunk
    /\ \A i, j \in 1..Len(wire[h]) : i < j => wire[h][i] < wire[h][j]

JoinedAfterShutdown == shutdownConnected /\ isShutdown /\ apc = <<"done">>

\* C24: once shutdown() has been called on a connected endpoint and join()
\* on it has returned, no line goes to the output handler any more and the
\* packet handler is not called any more.
C24_SilentAfterJoin ==
    [][JoinedAfterShutdown => (out' = {} /\ called' = <<>>)]_vars

\* C24, the state of its failing input: join() has returned after a
\* shutdown() of a connected endpoint and a handler that disconnect() has
\* detached is still in its loop with a line to pass on.
C24_JoinedWithHandlerInLoop ==
    /\ JoinedAfterShutdown
    /\ \E h \in Handlers : pc[h] \notin {"dead", "unborn", "started"} /\ hout[h] # {}

\* C25: a stop() is not lost: once stop() has been called on a handler its
\* running flag is false, whenever the handler thread runs, so that the
\* thread leaves its loop the next time it reads the flag.
C25_StopIsNotLost ==
    \A h \in Handlers : stopped[h] => ~running[h]

\* C25, the state of its failing input: stop() was called on a started
\* handler before its thread set _running; the thread is in its loop with
\* the flag set, its socket open, and the endpoint names it no more.
C25_StopOverwritten ==
    \E h \in Handlers :
        /\ stopped[h] /\ running[h]
        /\ pc[h] = "poll" /\ sock[h] = "up"
        /\ client # h /\ server # h /\ aj # h

\* The accept thread is inside the with block of run() (lines 92-113).
AcceptHoldsLock ==
    /\ lock
    /\ apc[1] \in {"connect", "fail_start", "fail_stop", "fail_join",
                   "fail_clear", "ok_start_client", "ok_start_server",
                   "ok_connected"}

\* The accept thread waits in join() for handler h (lines 103, 122, 127,
\* 182, 187).
JoinsHandler(h) ==
    \/ apc = <<"fail_join">> /\ client = h
    \/ Len(apc) = 3 /\ apc[3] = "wait" /\ aj = h

\* C26: the endpoint is free of deadlock: the accept thread never waits in
\* join(), holding the endpoint lock, for a handler thread that waits for
\* that lock inside disconnect().
C26_NoJoinUnderLockForLockWaiter ==
    \A h \in Handlers :
        (AcceptHoldsLock /\ JoinsHandler(h)) => ~WaitsForLock(h)

\* C26, the state of its failing input: the accept thread holds the lock
\* and waits in join() for the client handler, the client handler and the
\* command loop both wait in disconnect() for the lock, and no thread of the
\* endpoint can take a step any more.
C26_LockAndJoinCycle ==
    /\ \E h \in Handlers :
          AcceptHoldsLock /\ JoinsHandler(h) /\ WaitsForLock(h)
    /\ WaitsForLock(CLI)
    /\ ~ENABLED (AcceptThread \/ HandlerLoop \/ Disconnect)

\* Handlers t and g serve the same connection: the client handler that
\* _waitForClient constructs (line 192) and the server handler that _connect
\* constructs next (line 206).
SameConnection(t, g) ==
    \/ t = g
    \/ role[t] = "CLIENT" /\ role[g] = "SERVER" /\ g = t + 1
    \/ role[g] = "CLIENT" /\ role[t] = "SERVER" /\ t = g + 1

\* In this step the disconnect() that thread t is in stops handler g
\* (lines 219, 223) or clears the endpoint's reference to it (lines 220, 224).
DisconnectStopsOrClears(t, g) ==
    \E r \in {"CLIENT", "SERVER"} :
        /\ RefOf(r) = g
        /\ \/ dpc[t] = StopAt(r) /\ dpc'[t] = ClearAt(r)
           \/ dpc[t] = ClearAt(r) /\ dpc'[t] # dpc[t]

\* C27: the disconnect() of a handler tears down only the connection of
\* that handler: it stops and clears no handler of another connection,
\* such as one accepted after the caller was stopped and detached.
C27_DisconnectOnlyOwnConnection ==
    [][\A t, g \in Handlers :
          DisconnectStopsOrClears(t, g) => SameConnection(t, g)]_vars

\* C27, the state of its failing input: a handler that was stopped and
\* detached has, in a disconnect() of its own, stopped the not yet started
\* handler of the next client and cleared the endpoint's reference to it.
C27_NextClientTornDownByOldHandler ==
    \E t, g \in Handlers :
        /\ t < g /\ ~SameConnection(t, g)
        /\ stopped[t] /\ dpc[t] \in {"s_chk", "conn"}
        /\ role[g] = "CLIENT" /\ pc[g] = "new" /\ stopped[g]
        /\ client = None

\* A buffer enqueued on handler h has left its queue without having been
\* written: the write failed (lines 292-296).
Dropped(h) == Len(wire[h]) + Len(queue[h]) < nsent[h]

\* The buffers written by handler h are the first buffers enqueued on it.
WrittenIsPrefix(h) ==
    /\ Len(wire[h]) <= nsent[h]
    /\ \A i \in 1..Len(wire[h]) : wire[h][i] = i

\* C28: for every handler, the buffers written to its socket are at all
\* times the first of the buffers enqueued on it, each once and in order,
\* and once a buffer has failed to be written no later buffer is written,
\* in the loop or in the final flush.
C28_WrittenPrefixOfEnqueued ==
    [][\A h \in Handlers :
          /\ WrittenIsPrefix(h)'
          /\ Dropped(h) => wire'[h] = wire[h]]_vars

\* C28, its case: the write of the first buffer failed in the loop, and the
\* handler has left its loop for the final flush with the second buffer
\* still in its queue.
C28_FlushAfterFailedWrite ==
    \E h \in Handlers :
        /\ pc[h] = "flush"
        /\ nsent[h] = 2 /\ wire[h] = <<>> /\ queue[h] = <<2>>
        /\ sock[h] = "reset"

\* The write of a buffer fails in this step of handler h's loop (line 292
\* raises inside the _sendQueue of line 331).
WriteFails(h) ==
    pc[h] = "sending" /\ "xmit" \in hout'[h] /\ "xmit" \notin hout[h]

\* Handler h ends an iteration of its loop in which a write failed (lines
\* 341-344).
EndsFailedIteration(h) ==
    pc[h] = "chk" /\ pc'[h] # "chk" /\ "xmit" \in hout[h]

\* C29: a handler takes buffers from its queue only in its calls of
\* _sendQueue, which it enters from the loop only with a queue that is not
\* empty; a write that fails in the loop makes it call disconnect() on the
\* endpoint, and it then leaves its loop: the iteration of the failed write
\* is its last.
C29_WriteFailureEndsLoop ==
    [][\A h \in Handlers :
          /\ Len(queue'[h]) < Len(queue[h]) => pc[h] \in {"sending", "flush"}
          /\ (pc[h] # "sending" /\ pc'[h] = "sending") => queue[h] # <<>>
          /\ WriteFails(h) => (pc'[h] = "chk" /\ dpc'[h] = "lock")
          /\ EndsFailedIteration(h) => pc'[h] # "poll"]_vars

\* C29, the state of its failing input: a write of the handler has failed,
\* the disconnect() it called has returned, and the handler, which set
\* _running after stop() had cleared it, is in its loop again.
C29_InLoopAfterFailedWrite ==
    \E h \in Handlers :
        /\ Dropped(h) /\ sock[h] = "reset"
        /\ pc[h] = "poll" /\ dpc[h] = "idle"
        /\ running[h] /\ stopped[h]

\* Handler h closes its socket in this step (lines 353-354).
Closes(h) == sock'[h] = "closed" /\ sock[h] # "closed"

\* A step of handler h on its exit path (lines 345-357).
FlushStep(h) ==
    pc[h] = "flush" /\ (pc'[h] # pc[h] \/ Len(queue'[h]) < Len(queue[h]))

PollFailure(h) ==
    pc[h] = "poll" /\ pc'[h] # "poll" /\ ~stopped[h] /\ stopped'[h]

\* C31: when the readiness poll of a handler fails the handler stops itself
\* and goes on to its normal exit: no exception ends its thread, and its
\* thread does not end with the socket open while the endpoint is connected
\* and refers to the handler.
C31_PollFailureExitsNormally ==
    [][\A h \in Handlers :
          PollFailure(h) =>
              /\ ~running'[h]
              /\ pc'[h] # "crashed" /\ err' = <<>>
              /\ ~(Finished(h)' /\ sock'[h] # "closed" /\ connected'
                     /\ h \in {client', server'})]_vars

\* C31, the state of its failing input: the poll of the client handler of a
\* connected endpoint has failed; an exception has ended the handler's
\* thread with the socket open, and the endpoint is connected and refers
\* to the handler.
C31_ConnectedWithCrashedHandler ==
    /\ connected /\ ~isShutdown
    /\ client # None /\ err = <<client, "poll">>
    /\ pc[client] = "crashed" /\ sock[client] = "up"
    /\ ~running[client]

====
